---- MODULE Spec2Model ----
(***************************************************************************)
(* Entity rules of the department web site (main/models.py, main/admin.py,*)
(* main/views.py): slug assignment, the single-HOD hook, the highlight-card*)
(* cap, the DepartmentSettings / AboutImage singletons, file clean-up,     *)
(* model validation, the filters of the public list views, the shared     *)
(* template context, and the two-step writes under concurrent requests.   *)
(*                                                                         *)
(* Text values (titles, slugs) are sequences of one-character strings.     *)
(* A stored file is named <<category, n>>, n standing for the uuid4 token  *)
(* of _unique_name; the empty file field is <<>>.                          *)
(***************************************************************************)
EXTENDS Integers, Sequences, FiniteSets, TLC

VARIABLES
    slugged,    \* [SlugModels -> set of rows [pk, slug]]: Event, News, Album tables
                \* (the title is read from the saved instance only, so it is an input)
    staff,      \* set of StaffProfile rows [pk, role, is_hod, order]
    cards,      \* set of HighlightCard rows [pk, image, is_active]
    settings,   \* set of DepartmentSettings rows [pk, logo]
    about,      \* set of AboutImage rows [pk, image]
    events,     \* set of Event rows [pk, category, start_at, end_at, image, video,
                \* video_captions]: the columns read by clean(), delete() and the list
    albums,     \* set of Album rows [pk, cover_image]
    media,      \* set of GalleryMedia rows [pk, album, year, image, video]
    exams,      \* set of Exam rows [pk, semester, exam_date, pdf_file]
    timetables, \* set of ClassTimetable rows [pk, semester]
    newsItems,  \* set of News rows [pk, published_at]
    response,   \* the last list request served and the rows it returned
    sections,   \* set of SectionImage rows [pk, key, image], created in the order of their pk
    inflight,   \* [Requests -> record]: the step each concurrent request has reached
    storage,    \* set of file names held by the file storage
    nextPk,     \* [Models -> Nat]: next auto-assigned primary key of each table
    nextFile,   \* next fresh token of _unique_name
    last        \* the last operation performed and its outcome

vars == <<slugged, staff, cards, settings, about, events, albums, media, exams,
          timetables, newsItems, response, sections, inflight, storage, nextPk, nextFile,
          last>>

\* the content tables, the list response and the requests in flight, left alone by
\* the rules above them
content == <<events, albums, media, exams, timetables, newsItems, response, sections,
             inflight>>

----------------------------------------------------------------------------
(* Bounds of the model *)

MaxSlugRows == 3
MaxStaff == 3
MaxCards == 4
MaxSettings == 3
MaxAbout == 3
MaxFiles == 4
MaxEvents == 2
MaxEventFiles == 3
MaxAlbums == 2
MaxMedia == 2
MaxGalleryFiles == 2
MaxQueryRows == 19
MaxExams == 2
MaxRequests == 2
MaxSections == 3
LongLen == 241

----------------------------------------------------------------------------
(* Program constants *)

EventSlugMax == 220
NewsSlugMax == 240
AlbumSlugMax == 240
DefaultSlugMax == 240
TokenLen == 8
MAX_ACTIVE == 3
ListLimit == 18
ExamsLimit == 50

SlugModels == {"Event", "News", "Album"}
Models == SlugModels \cup {"StaffProfile", "HighlightCard", "DepartmentSettings", "AboutImage",
                            "Exam", "ClassTimetable", "GalleryMedia", "SectionImage"}

NoPk == 0

\* the admin requests served at the same time, and a request slot not in use
Requests == 1..MaxRequests
Idle == [step |-> "idle"]

----------------------------------------------------------------------------
(* Text helpers *)

Min(a, b) == IF a <= b THEN a ELSE b

\* Python slice s[:k] for k >= 0
Take(s, k) == SubSeq(s, 1, Min(k, Len(s)))

DigitChar(d) == <<"0", "1", "2", "3", "4", "5", "6", "7", "8", "9">>[d + 1]

RECURSIVE Digits(_)
Digits(n) == IF n < 10 THEN <<DigitChar(n)>> ELSE Digits(n \div 10) \o <<DigitChar(n % 10)>>

\* f"-{n}"
Suffix(n) == <<"-">> \o Digits(n)

LowerChars == {"a", "b"}
UpperChars == {"A", "B"}
DigitChars == {"0", "1", "2", "3", "4", "5", "6", "7", "8", "9"}
NonAsciiChars == {"§"}

LowerChar(c) == IF c = "A" THEN "a" ELSE IF c = "B" THEN "b" ELSE c

\* \w of the regular expressions of slugify, after lower-casing
IsWordChar(c) == c \in LowerChars \cup DigitChars \cup {"_"}
IsSpaceChar(c) == c = " "
IsSepChar(c) == c = "-" \/ IsSpaceChar(c)

\* django slugify (allow_unicode = False): drop the non-ASCII characters,
\* lower-case, drop what is neither \w, white space nor a hyphen, replace each
\* run of hyphens / white space by one hyphen, strip leading and trailing
\* hyphens and underscores.
SlugifyKeep(s) ==
    LET ascii == SelectSeq(s, LAMBDA c : c \notin NonAsciiChars)
        lower == [i \in 1..Len(ascii) |-> LowerChar(ascii[i])]
    IN  SelectSeq(lower, LAMBDA c : IsWordChar(c) \/ IsSepChar(c))

SlugifyCollapse(s) ==
    LET idx == SelectSeq([i \in 1..Len(s) |-> i],
                         LAMBDA i : ~IsSepChar(s[i]) \/ i = 1 \/ ~IsSepChar(s[i - 1]))
    IN  [k \in 1..Len(idx) |-> IF IsSepChar(s[idx[k]]) THEN "-" ELSE s[idx[k]]]

RECURSIVE StripLeft(_)
StripLeft(s) == IF s # <<>> /\ Head(s) \in {"-", "_"} THEN StripLeft(Tail(s)) ELSE s

RECURSIVE StripRight(_)
StripRight(s) == IF s # <<>> /\ s[Len(s)] \in {"-", "_"}
                 THEN StripRight(SubSeq(s, 1, Len(s) - 1)) ELSE s

SlugifyStrip(s) == StripRight(StripLeft(s))

Slugify(s) == SlugifyStrip(SlugifyCollapse(SlugifyKeep(s)))

----------------------------------------------------------------------------
(* Inputs *)

TitleNoisy == <<" ", "A", "!", "§">>
TitlePunct == <<"!">>
\* longer than every slug column; Model.save() and SQLite do not enforce the
\* max_length of the title column (only form validation does)
TitleLong == [i \in 1..LongLen |-> "a"]
Titles == {TitleNoisy, TitlePunct, TitleLong}

\* slug values typed into the slug field of the form; <<>> is "left blank"
SuppliedSlugs == {<<>>, <<"a", "-", "2">>}

\* values of uuid.uuid4().hex[:8]
Tokens == {[i \in 1..TokenLen |-> IF i < TokenLen THEN "0" ELSE "a"]}
NoToken == <<>>

\* slugify(title) of each input title, computed once
SlugifyOf == [t \in Titles |-> Slugify(t)]

\* uuid.uuid4() is called only when the base is empty
TokensFor(slugIn, title) == IF slugIn = <<>> /\ SlugifyOf[title] = <<>> THEN Tokens ELSE {NoToken}

----------------------------------------------------------------------------
(* Slug utilities *)

SlugMaxLen(m) ==
    CASE m = "Event" -> EventSlugMax
      [] m = "News" -> NewsSlugMax
      [] m = "Album" -> AlbumSlugMax

\* Model.objects.filter(slug=slug).exclude(pk=pk).exists()
SlugTaken(rows, slug, pk) == \E r \in rows : r.slug = slug /\ r.pk # pk

\* the loop with the base not cut to make room for the suffix
RECURSIVE UniqueSlugLoop_NoCut(_, _, _, _, _, _)
UniqueSlugLoop_NoCut(rows, pk, base, slug, n, maxlen) ==
    IF SlugTaken(rows, slug, pk)
    THEN UniqueSlugLoop_NoCut(rows, pk, base, base \o Suffix(n), n + 1, maxlen)
    ELSE slug

RECURSIVE UniqueSlugLoop(_, _, _, _, _, _)
UniqueSlugLoop(rows, pk, base, slug, n, maxlen) ==
    IF SlugTaken(rows, slug, pk)
    THEN UniqueSlugLoop(rows, pk, base,
                        Take(base, maxlen - Len(Suffix(n))) \o Suffix(n), n + 1, maxlen)
    ELSE slug

\* _unique_slug without the random token for an empty base
UniqueSlug_NoToken(rows, pk, instSlug, title, token, maxlen) ==
    LET b0 == IF instSlug # <<>> THEN instSlug ELSE SlugifyOf[title]
        base == Take(b0, IF maxlen # 0 THEN maxlen ELSE DefaultSlugMax)
    IN  UniqueSlugLoop(rows, pk, base, base, 2, maxlen)

\* _unique_slug: the slug it sets on the instance
UniqueSlug(rows, pk, instSlug, title, token, maxlen) ==
    LET b0 == IF instSlug # <<>> THEN instSlug ELSE SlugifyOf[title]
        b1 == Take(b0, IF maxlen # 0 THEN maxlen ELSE DefaultSlugMax)
        base == IF b1 = <<>> THEN token ELSE b1
    IN  UniqueSlugLoop(rows, pk, base, base, 2, maxlen)

\* a hook deriving the slug from the title on every save
PreSlug_FromTitle(m, rows, pk, instSlug, title, token) ==
    UniqueSlug(rows, pk, <<>>, title, IF token = NoToken THEN <<"0">> ELSE token, SlugMaxLen(m))

\* _pre_slug: the slug of the instance after the pre_save signal
PreSlug(m, rows, pk, instSlug, title, token) ==
    IF m \in SlugModels /\ instSlug = <<>>
    THEN UniqueSlug(rows, pk, instSlug, title, token, SlugMaxLen(m))
    ELSE instSlug

\* the slug column without its unique constraint
SlugUniqueOk_NoConstraint(rows, slug, pk) == TRUE

\* unique=True of the slug column: the write is refused when another row holds the slug
SlugUniqueOk(rows, slug, pk) == ~SlugTaken(rows, slug, pk)

\* rows inserted so far in the three slugged tables
SlugCreated == (nextPk["Event"] - 1) + (nextPk["News"] - 1) + (nextPk["Album"] - 1)

\* Model.save() of an Event / News / Album row: pre_save hook, then INSERT (pk = NoPk)
\* or UPDATE. The three tables never read each other (every query of the hook is
\* Model.objects of the instance's own type), so a run fills one table.
SlugSave(m, pk, title, slugIn, token) ==
    /\ IF pk = NoPk
       THEN SlugCreated < MaxSlugRows /\ \A m2 \in SlugModels \ {m} : nextPk[m2] = 1
       ELSE \E r \in slugged[m] : r.pk = pk
    /\ LET rows == slugged[m]
           slug == PreSlug(m, rows, pk, slugIn, title, token)
           newPk == IF pk = NoPk THEN nextPk[m] ELSE pk
           ok == SlugUniqueOk(rows, slug, pk)
       IN  /\ slugged' = IF ok
                THEN [slugged EXCEPT ![m] =
                        {r \in rows : r.pk # pk} \cup {[pk |-> newPk, slug |-> slug]}]
                ELSE slugged
           /\ nextPk' = IF ok /\ pk = NoPk THEN [nextPk EXCEPT ![m] = @ + 1] ELSE nextPk
           /\ last' = [op |-> "slug_save", resaved |-> (pk # NoPk /\ slugIn # <<>>)]
    /\ UNCHANGED <<content, staff, cards, settings, about, storage, nextFile>>

\* the (title, slug) pairs submitted: every title with the slug left blank, and one
\* title with a slug typed in (the hook reads the title only when the slug is blank);
\* a change form is also submitted with the stored slug and any title
SlugInputs == {<<t, <<>>>> : t \in Titles} \cup {<<TitleNoisy, s>> : s \in SuppliedSlugs}

SlugCreate == \E m \in SlugModels, in \in SlugInputs :
                  \E tok \in TokensFor(in[2], in[1]) : SlugSave(m, NoPk, in[1], in[2], tok)

SlugUpdate == \E m \in SlugModels : \E r \in slugged[m] :
                  \E in \in SlugInputs \cup {<<t, r.slug>> : t \in Titles} :
                      \E tok \in TokensFor(in[2], in[1]) : SlugSave(m, r.pk, in[1], in[2], tok)

----------------------------------------------------------------------------
(* Staff: the single-HOD hook *)

RoleHOD == "HOD"
RoleProfessor == "Professor"
RoleAssistant == "Assistant Professor"
StaffRoles == {RoleHOD, RoleProfessor, RoleAssistant}
\* values of the order column used as inputs
Orders == {0, 1}

\* the hook triggered by the role only
EnsureSingleHod_RoleTrigger(rows, pk, is_hod, role) ==
    IF role = RoleHOD
    THEN {IF r.pk # pk /\ (r.is_hod \/ r.role = RoleHOD)
          THEN [r EXCEPT !.is_hod = FALSE, !.role = RoleProfessor]
          ELSE r : r \in rows}
    ELSE rows

\* the hook clearing only the rows whose role is HOD
EnsureSingleHod_RoleFilter(rows, pk, is_hod, role) ==
    IF is_hod \/ role = RoleHOD
    THEN {IF r.pk # pk /\ r.role = RoleHOD
          THEN [r EXCEPT !.is_hod = FALSE, !.role = RoleProfessor]
          ELSE r : r \in rows}
    ELSE rows

\* the hook clearing only the rows whose flag is set
EnsureSingleHod_FlagFilter(rows, pk, is_hod, role) ==
    IF is_hod \/ role = RoleHOD
    THEN {IF r.pk # pk /\ r.is_hod
          THEN [r EXCEPT !.is_hod = FALSE, !.role = RoleProfessor]
          ELSE r : r \in rows}
    ELSE rows

\* _ensure_single_hod: the table after the pre_save signal of an instance with the
\* given pk, is_hod and role (the instance itself is not written yet)
EnsureSingleHod(rows, pk, is_hod, role) ==
    IF is_hod \/ role = RoleHOD
    THEN {IF r.pk # pk /\ (r.is_hod \/ r.role = RoleHOD)
          THEN [r EXCEPT !.is_hod = FALSE, !.role = RoleProfessor]
          ELSE r : r \in rows}
    ELSE rows

HodPks(rows) == {r.pk : r \in {x \in rows : x.is_hod}}

\* StaffProfile.save(): pre_save hook, then INSERT (pk = NoPk) or UPDATE of the row
StaffSave(pk, role, is_hod, order) ==
    /\ IF pk = NoPk THEN nextPk["StaffProfile"] <= MaxStaff ELSE \E r \in staff : r.pk = pk
    /\ LET newPk == IF pk = NoPk THEN nextPk["StaffProfile"] ELSE pk
           hooked == EnsureSingleHod(staff, pk, is_hod, role)
       IN  /\ staff' = {r \in hooked : r.pk # pk}
                          \cup {[pk |-> newPk, role |-> role, is_hod |-> is_hod, order |-> order]}
           /\ nextPk' = IF pk = NoPk THEN [nextPk EXCEPT !["StaffProfile"] = @ + 1] ELSE nextPk
           /\ last' = [op |-> "staff_save", pk |-> newPk, is_hod |-> is_hod,
                       hodBefore |-> HodPks(staff)]
    /\ UNCHANGED <<content, slugged, cards, settings, about, storage, nextFile>>

\* add form of the staff admin
StaffCreate == \E role \in StaffRoles, is_hod \in BOOLEAN, order \in Orders :
                   StaffSave(NoPk, role, is_hod, order)

\* change form of the staff admin
StaffFormEdit == \E r \in staff, role \in StaffRoles, is_hod \in BOOLEAN, order \in Orders :
                     StaffSave(r.pk, role, is_hod, order)

\* list_editable = ("order",): the row is saved with its stored role and flag
StaffListEdit == \E r \in staff, order \in Orders : StaffSave(r.pk, r.role, r.is_hod, order)

\* the action flagging every selected row
MakeHodRows_All(rows, selected, first) ==
    {IF r \in selected THEN [r EXCEPT !.is_hod = TRUE] ELSE r : r \in rows}

\* make_hod on a non-empty selection: the flag of the other rows is cleared by an
\* update, then the first row is saved with is_hod = True (the hook runs again)
MakeHodRows(rows, selected, first) ==
    LET cleared == {IF r.pk # first.pk /\ r.is_hod THEN [r EXCEPT !.is_hod = FALSE] ELSE r :
                       r \in rows}
        hooked == EnsureSingleHod(cleared, first.pk, TRUE, first.role)
    IN  {r \in hooked : r.pk # first.pk} \cup {[first EXCEPT !.is_hod = TRUE]}

\* the admin action "Set first selected staff as HOD" on a selection of rows of the
\* change list. queryset.first() is the first selected row in the order of the change
\* list, which the request can sort by any listed column (the rows carry no name,
\* phone or email), so any selected row can be the first; an empty selection returns
\* before anything is written
MakeHod == \E selected \in SUBSET staff :
    /\ IF selected = {}
       THEN /\ staff' = staff
            /\ last' = [op |-> "make_hod", pk |-> NoPk, selected |-> {},
                        hodBefore |-> HodPks(staff)]
       ELSE \E first \in selected :
            /\ staff' = MakeHodRows(staff, selected, first)
            /\ last' = [op |-> "make_hod", pk |-> first.pk,
                        selected |-> {r.pk : r \in selected}, hodBefore |-> HodPks(staff)]
    /\ UNCHANGED <<content, slugged, cards, settings, about, storage, nextPk, nextFile>>

\* StaffProfile.save() of a stored row submitted with is_hod = True, first part: the
\* instance is loaded and the pre_save signal runs _ensure_single_hod, whose update
\* is a statement of its own; nothing locks the table between it and the write
StaffHookStep == \E p \in Requests, r \in staff :
    /\ inflight[p] = Idle
    /\ staff' = EnsureSingleHod(staff, r.pk, TRUE, r.role)
    /\ inflight' = [inflight EXCEPT ![p] =
                       [step |-> "staff_hooked", row |-> [r EXCEPT !.is_hod = TRUE]]]
    /\ last' = [op |-> "staff_hook", pk |-> r.pk, is_hod |-> TRUE,
                hodBefore |-> HodPks(staff)]
    /\ UNCHANGED <<events, albums, media, exams, timetables, newsItems, response, sections,
                   slugged, cards, settings, about, storage, nextPk, nextFile>>

\* second part: the UPDATE of the row with the values of the instance
StaffWriteStep == \E p \in Requests :
    /\ inflight[p].step = "staff_hooked"
    /\ staff' = {r \in staff : r.pk # inflight[p].row.pk} \cup {inflight[p].row}
    /\ inflight' = [inflight EXCEPT ![p] = Idle]
    /\ last' = [op |-> "staff_write", pk |-> inflight[p].row.pk, is_hod |-> TRUE,
                hodBefore |-> HodPks(staff)]
    /\ UNCHANGED <<events, albums, media, exams, timetables, newsItems, response, sections,
                   slugged, cards, settings, about, storage, nextPk, nextFile>>

----------------------------------------------------------------------------
(* Uploaded files *)

NoFile == <<>>

\* _unique_name(prefix, filename): a fresh name under the category of the field
UniqueName(prefix) == <<prefix, nextFile>>

----------------------------------------------------------------------------
(* Highlight cards: the admin form and the active cap *)

HasImage(r) == r.image # NoFile

\* what the image field of the submitted form holds: nothing new ("keep": the stored
\* image on an edit, nothing on an add), a new upload, or the clear box ticked
ImageInputs == {"keep", "upload", "clear"}

\* cleaned_data["image"] before clean_image
FormImage(stored, input) ==
    CASE input = "keep" -> stored
      [] input = "upload" -> UniqueName("highlights")
      [] input = "clear" -> NoFile

\* clean_image asking for an image only when the card is active
CleanImageErrors_ActiveOnly(image, is_active) ==
    IF image = NoFile /\ is_active THEN {[code |-> "image_required"]} ELSE {}

\* HighlightCardForm.clean_image
CleanImageErrors(image, is_active) ==
    IF image = NoFile THEN {[code |-> "image_required"]} ELSE {}

\* the count taking every active row, the edited one and those without image included
ActiveCount_NoExclusions(rows, pk) == Cardinality({r \in rows : r.is_active})

\* qs.count() of HighlightCardForm.clean: the active rows with an image other than pk
ActiveCount(rows, pk) ==
    Cardinality({r \in rows : r.is_active /\ r.pk # pk /\ r.image # NoFile})

\* clean comparing with > instead of >=
CleanErrors_Strict(rows, pk, image, is_active) ==
    IF is_active /\ image # NoFile /\ ActiveCount(rows, pk) > MAX_ACTIVE
    THEN {[code |-> "cap", count |-> ActiveCount(rows, pk), max |-> MAX_ACTIVE]}
    ELSE {}

\* HighlightCardForm.clean
CleanErrors(rows, pk, image, is_active) ==
    IF is_active /\ image # NoFile /\ ActiveCount(rows, pk) >= MAX_ACTIVE
    THEN {[code |-> "cap", count |-> ActiveCount(rows, pk), max |-> MAX_ACTIVE]}
    ELSE {}

\* the errors of the form: clean_image runs first; when it fails cleaned_data holds
\* no image and clean skips the count
FormErrors(rows, pk, image, is_active) ==
    CleanImageErrors(image, is_active) \cup CleanErrors(rows, pk, image, is_active)

\* add / change view of the highlight-card admin: the form is validated and, when
\* valid, the row is saved and a new upload is written to storage
CardFormSave(pk, stored, input, is_active) ==
    /\ IF pk = NoPk THEN nextPk["HighlightCard"] <= MaxCards ELSE TRUE
    /\ input = "upload" => nextFile <= MaxFiles
    /\ LET image == FormImage(stored, input)
           errors == FormErrors(cards, pk, image, is_active)
           ok == errors = {}
           newPk == IF pk = NoPk THEN nextPk["HighlightCard"] ELSE pk
       IN  /\ cards' = IF ok
                THEN {r \in cards : r.pk # pk}
                       \cup {[pk |-> newPk, image |-> image, is_active |-> is_active]}
                ELSE cards
           /\ storage' = IF ok /\ input = "upload" THEN storage \cup {image} ELSE storage
           /\ nextFile' = IF ok /\ input = "upload" THEN nextFile + 1 ELSE nextFile
           /\ nextPk' = IF ok /\ pk = NoPk
                        THEN [nextPk EXCEPT !["HighlightCard"] = @ + 1] ELSE nextPk
           /\ last' = [op |-> "card_form", pk |-> IF ok THEN newPk ELSE pk,
                       created |-> (pk = NoPk), is_active |-> is_active,
                       hasImage |-> (image # NoFile), ok |-> ok, errors |-> errors]
    /\ UNCHANGED <<content, slugged, staff, settings, about>>

CardFormAdd == \E input \in {"keep", "upload"}, is_active \in BOOLEAN :
                   CardFormSave(NoPk, NoFile, input, is_active)

CardFormEdit == \E r \in cards, input \in ImageInputs, is_active \in BOOLEAN :
                    CardFormSave(r.pk, r.image, input, is_active)

\* list_editable = ("order", "is_active"): the change list saves the row through its
\* own formset, which is not built from HighlightCardForm (the order column, like
\* title, subtitle and link, is read by no rule and is left out of the rows)
CardListEdit == \E r \in cards, is_active \in BOOLEAN :
    /\ cards' = (cards \ {r}) \cup {[r EXCEPT !.is_active = is_active]}
    /\ last' = [op |-> "card_list_edit", pk |-> r.pk, created |-> FALSE,
                is_active |-> is_active, hasImage |-> HasImage(r), ok |-> TRUE, errors |-> {}]
    /\ UNCHANGED <<content, slugged, staff, settings, about, storage, nextPk, nextFile>>

\* the change form of a stored card submitted as it is
CardResave == \E r \in cards : CardFormSave(r.pk, r.image, "keep", r.is_active)

\* HighlightCard.save() called without the admin form: the image column is blank=True,
\* null=True and Model.save() runs no validation, so a row is stored without an image
CardModelCreate == \E is_active \in BOOLEAN :
    /\ nextPk["HighlightCard"] <= MaxCards
    /\ cards' = cards \cup {[pk |-> nextPk["HighlightCard"], image |-> NoFile,
                              is_active |-> is_active]}
    /\ nextPk' = [nextPk EXCEPT !["HighlightCard"] = @ + 1]
    /\ last' = [op |-> "card_save", pk |-> nextPk["HighlightCard"], created |-> TRUE,
                is_active |-> is_active, hasImage |-> FALSE, ok |-> TRUE, errors |-> {}]
    /\ UNCHANGED <<content, slugged, staff, settings, about, storage, nextFile>>

\* add view of the highlight-card admin, first part: form.is_valid() runs clean_image
\* and clean on the table as it is now. The request submits an active card with an
\* uploaded image; its handler takes no lock and reads the table only here
CardValidate == \E p \in Requests :
    /\ inflight[p] = Idle
    /\ inflight' = [inflight EXCEPT ![p] =
                       [step |-> "card_validated", seen |-> ActiveCount(cards, NoPk),
                        errors |-> FormErrors(cards, NoPk, UniqueName("highlights"), TRUE)]]
    /\ last' = [op |-> "card_validate", pk |-> NoPk, created |-> TRUE, is_active |-> TRUE,
                hasImage |-> TRUE, ok |-> TRUE, errors |-> {}]
    /\ UNCHANGED <<events, albums, media, exams, timetables, newsItems, response, sections,
                   slugged, staff, cards, settings, about, storage, nextPk, nextFile>>

\* a write step that validates the form again on the table it writes to
CardCommitErrors_Recheck(rows, request) ==
    FormErrors(rows, NoPk, UniqueName("highlights"), TRUE)

\* the errors the write step goes by: those found by form.is_valid(); save_model()
\* does not read the table again
CardCommitErrors(rows, request) == request.errors

\* add view, second part: the form with errors is shown again, the valid form is saved
CardCommit == \E p \in Requests :
    /\ inflight[p].step = "card_validated"
    /\ nextPk["HighlightCard"] <= MaxCards /\ nextFile <= MaxFiles
    /\ LET ok == CardCommitErrors(cards, inflight[p]) = {}
           newPk == nextPk["HighlightCard"]
       IN  /\ cards' = IF ok
                THEN cards \cup {[pk |-> newPk, image |-> UniqueName("highlights"),
                                  is_active |-> TRUE]}
                ELSE cards
           /\ storage' = IF ok THEN storage \cup {UniqueName("highlights")} ELSE storage
           /\ nextFile' = IF ok THEN nextFile + 1 ELSE nextFile
           /\ nextPk' = IF ok THEN [nextPk EXCEPT !["HighlightCard"] = @ + 1] ELSE nextPk
           /\ last' = [op |-> "card_commit", pk |-> IF ok THEN newPk ELSE NoPk,
                       created |-> TRUE, is_active |-> TRUE, hasImage |-> TRUE, ok |-> ok,
                       errors |-> inflight[p].errors, seen |-> inflight[p].seen]
    /\ inflight' = [inflight EXCEPT ![p] = Idle]
    /\ UNCHANGED <<events, albums, media, exams, timetables, newsItems, response, sections,
                   slugged, staff, settings, about>>

\* HighlightCard.delete(): the image file is deleted, then the row
CardDelete == \E r \in cards :
    /\ cards' = cards \ {r}
    /\ storage' = IF HasImage(r) THEN storage \ {r.image} ELSE storage
    /\ last' = [op |-> "card_delete", pk |-> r.pk, created |-> FALSE,
                is_active |-> r.is_active, hasImage |-> HasImage(r), ok |-> TRUE, errors |-> {}]
    /\ UNCHANGED <<content, slugged, staff, settings, about, nextPk, nextFile>>

----------------------------------------------------------------------------
(* Singletons: DepartmentSettings and AboutImage *)

\* the files removed from storage by QuerySet.delete() of the given rows: the bulk
\* delete issues the SQL DELETE and does not call the delete() method of the rows
QuerySetDeleteFiles(rows) == {}

\* has_add_permission letting every add through
SettingsHasAddPermission_Always == TRUE

\* DepartmentSettingsAdmin.has_add_permission
SettingsHasAddPermission == settings = {}

\* the logo field of the submitted settings form
LogoFor(stored, input) ==
    CASE input = "keep" -> stored
      [] input = "upload" -> UniqueName("settings")
      [] input = "clear" -> NoFile

\* add view of the settings admin: refused without add permission, else the row is
\* inserted and an uploaded logo written to storage
SettingsAdminAdd == \E input \in {"keep", "upload"} :
    /\ nextPk["DepartmentSettings"] <= MaxSettings
    /\ input = "upload" => nextFile <= MaxFiles
    /\ LET ok == SettingsHasAddPermission
           logo == LogoFor(NoFile, input)
           newPk == nextPk["DepartmentSettings"]
       IN  /\ settings' = IF ok THEN settings \cup {[pk |-> newPk, logo |-> logo]} ELSE settings
           /\ storage' = IF ok /\ input = "upload" THEN storage \cup {logo} ELSE storage
           /\ nextFile' = IF ok /\ input = "upload" THEN nextFile + 1 ELSE nextFile
           /\ nextPk' = IF ok THEN [nextPk EXCEPT !["DepartmentSettings"] = @ + 1] ELSE nextPk
           /\ last' = [op |-> "settings_add", pk |-> IF ok THEN newPk ELSE NoPk, ok |-> ok,
                       existedBefore |-> {r.pk : r \in settings}, purgedFiles |-> {}]
    /\ UNCHANGED <<content, slugged, staff, cards, about>>

\* change view of the settings admin
SettingsAdminEdit == \E r \in settings, input \in ImageInputs :
    /\ input = "upload" => nextFile <= MaxFiles
    /\ LET logo == LogoFor(r.logo, input)
       IN  /\ settings' = (settings \ {r}) \cup {[r EXCEPT !.logo = logo]}
           /\ storage' = IF input = "upload" THEN storage \cup {logo} ELSE storage
           /\ nextFile' = IF input = "upload" THEN nextFile + 1 ELSE nextFile
           /\ last' = [op |-> "settings_edit", pk |-> r.pk, ok |-> TRUE,
                       existedBefore |-> {x.pk : x \in settings}, purgedFiles |-> {}]
    /\ UNCHANGED <<content, slugged, staff, cards, about, nextPk>>

\* DepartmentSettings.delete(): the logo file is deleted, then the row
SettingsDelete == \E r \in settings :
    /\ settings' = settings \ {r}
    /\ storage' = IF r.logo # NoFile THEN storage \ {r.logo} ELSE storage
    /\ last' = [op |-> "settings_delete", pk |-> r.pk, ok |-> TRUE,
                existedBefore |-> {x.pk : x \in settings}, purgedFiles |-> {}]
    /\ UNCHANGED <<content, slugged, staff, cards, about, nextPk, nextFile>>

\* the rows AboutImage.save() keeps when it never purges
AboutKept_NoPurge(rows, pk) == rows

\* the rows AboutImage.save() keeps before writing its own row:
\* if not self.pk and AboutImage.objects.exists(): AboutImage.objects.all().delete()
AboutKept(rows, pk) == IF pk = NoPk /\ rows # {} THEN {} ELSE rows

\* AboutImage.save() of a new row (pk = NoPk) or of a stored row, with a newly
\* uploaded image or the stored one
AboutImageSave(pk, stored, input) ==
    /\ IF pk = NoPk THEN nextPk["AboutImage"] <= MaxAbout ELSE TRUE
    /\ input = "upload" => nextFile <= MaxFiles
    /\ LET kept == AboutKept(about, pk)
           purged == about \ kept
           image == IF input = "upload" THEN UniqueName("about") ELSE stored
           newPk == IF pk = NoPk THEN nextPk["AboutImage"] ELSE pk
       IN  /\ about' = {r \in kept : r.pk # pk} \cup {[pk |-> newPk, image |-> image]}
           /\ storage' = (storage \ QuerySetDeleteFiles(purged))
                             \cup (IF input = "upload" THEN {image} ELSE {})
           /\ nextFile' = IF input = "upload" THEN nextFile + 1 ELSE nextFile
           /\ nextPk' = IF pk = NoPk THEN [nextPk EXCEPT !["AboutImage"] = @ + 1] ELSE nextPk
           /\ last' = [op |-> "about_save", pk |-> newPk, ok |-> TRUE,
                       created |-> (pk = NoPk),
                       existedBefore |-> {r.pk : r \in about},
                       purgedFiles |-> {r.image : r \in purged}]
    /\ UNCHANGED <<content, slugged, staff, cards, settings>>

\* a new AboutImage saved by any caller of save(); the image field is required
AboutImageCreate == AboutImageSave(NoPk, NoFile, "upload")

\* a stored AboutImage saved again
AboutImageUpdate == \E r \in about, input \in {"keep", "upload"} :
                        AboutImageSave(r.pk, r.image, input)

\* add view of the AboutImage admin: refused when has_add_permission finds a row,
\* else the uploaded image is saved as a new row
AboutAdminAdd ==
    IF about = {}
    THEN AboutImageCreate
    ELSE /\ last' = [op |-> "about_add", pk |-> NoPk, ok |-> FALSE, created |-> FALSE,
                     existedBefore |-> {r.pk : r \in about}, purgedFiles |-> {}]
         /\ UNCHANGED <<content, slugged, staff, cards, settings, about, storage, nextPk,
                        nextFile>>

\* AboutImage.save() of a new row while a row exists, first statement:
\* AboutImage.objects.all().delete(), committed on its own (save() opens no
\* transaction)
AboutPurgeStep == \E p \in Requests :
    /\ inflight[p] = Idle
    /\ about # {}
    /\ about' = AboutKept(about, NoPk)
    /\ storage' = storage \ QuerySetDeleteFiles(about)
    /\ inflight' = [inflight EXCEPT ![p] = [step |-> "about_purged"]]
    /\ last' = [op |-> "about_purge", pk |-> NoPk, ok |-> TRUE, created |-> FALSE,
                existedBefore |-> {r.pk : r \in about},
                purgedFiles |-> {r.image : r \in about}]
    /\ UNCHANGED <<events, albums, media, exams, timetables, newsItems, response, sections,
                   slugged, staff, cards, settings, nextPk, nextFile>>

\* second statement: super().save(), the INSERT of the new row with its upload
AboutInsertStep == \E p \in Requests :
    /\ inflight[p].step = "about_purged"
    /\ nextPk["AboutImage"] <= MaxAbout /\ nextFile <= MaxFiles
    /\ about' = about \cup {[pk |-> nextPk["AboutImage"], image |-> UniqueName("about")]}
    /\ storage' = storage \cup {UniqueName("about")}
    /\ nextFile' = nextFile + 1
    /\ nextPk' = [nextPk EXCEPT !["AboutImage"] = @ + 1]
    /\ inflight' = [inflight EXCEPT ![p] = Idle]
    /\ last' = [op |-> "about_insert", pk |-> nextPk["AboutImage"], ok |-> TRUE,
                created |-> TRUE, existedBefore |-> {r.pk : r \in about},
                purgedFiles |-> {}]
    /\ UNCHANGED <<events, albums, media, exams, timetables, newsItems, response, sections,
                   slugged, staff, cards, settings>>

\* AboutImage.delete(): the image file is deleted, then the row
AboutImageDelete == \E r \in about :
    /\ about' = about \ {r}
    /\ storage' = IF r.image # NoFile THEN storage \ {r.image} ELSE storage
    /\ last' = [op |-> "about_delete", pk |-> r.pk, ok |-> TRUE,
                existedBefore |-> {x.pk : x \in about}, purgedFiles |-> {}]
    /\ UNCHANGED <<content, slugged, staff, cards, settings, nextPk, nextFile>>

----------------------------------------------------------------------------
(* Dates *)

\* a calendar date is <<year, month, day>>, a date-time is [date, hour]; a null
\* date or date-time column is NoDate
NoDate == <<>>

DateLT(a, b) ==
    \/ a[1] < b[1]
    \/ a[1] = b[1] /\ a[2] < b[2]
    \/ a[1] = b[1] /\ a[2] = b[2] /\ a[3] < b[3]

DateLE(a, b) == a = b \/ DateLT(a, b)

DateTimeLT(a, b) == DateLT(a.date, b.date) \/ (a.date = b.date /\ a.hour < b.hour)

At(date, hour) == [date |-> date, hour |-> hour]

----------------------------------------------------------------------------
(* Events: validation, uploaded files and deletion *)

CategoryOther == "Other"
CategorySeminar == "Seminar"

\* what a file field of a submitted form holds: the stored file ("keep"), a new
\* upload saved under the given fresh name, or nothing when the clear box is ticked
FormFile(stored, input, name) ==
    CASE input = "keep" -> stored
      [] input = "upload" -> name
      [] input = "clear" -> NoFile

UploadCount(inputs) == Cardinality({i \in DOMAIN inputs : inputs[i] = "upload"})

\* _unique_name for the k-th file field of one form, each upload taking a fresh token
UploadName(prefix, inputs, k) == <<prefix, nextFile + UploadCount(SubSeq(inputs, 1, k - 1))>>

\* Event.clean(): an end before the start is refused
EventClean(start_at, end_at) ==
    IF end_at # NoDate /\ start_at # NoDate /\ DateTimeLT(end_at, start_at)
    THEN {[field |-> "end_at", message |-> "End time must be after start time."]}
    ELSE {}

\* validation of the admin form of an Event: start_at is a required column, then clean()
EventFormErrors(start_at, end_at) ==
    (IF start_at = NoDate THEN {[field |-> "start_at", message |-> "required"]} ELSE {})
        \cup EventClean(start_at, end_at)

\* a write that failed validation is aborted: the table is left as it was
FormCommit_Partial(rows, pk, row, errors) == {r \in rows : r.pk # pk} \cup {row}

FormCommit(rows, pk, row, errors) ==
    IF errors = {} THEN {r \in rows : r.pk # pk} \cup {row} ELSE rows

NoEventFiles == [image |-> NoFile, video |-> NoFile, video_captions |-> NoFile]

\* add / change view of the Event admin: the form is validated and, when valid, the row
\* is saved and every new upload is written to storage; a file that a field held before
\* is left in storage
EventFormSave(pk, stored, category, start_at, end_at, inputs) ==
    /\ IF pk = NoPk THEN nextPk["Event"] <= MaxEvents ELSE TRUE
    /\ nextFile + UploadCount(inputs) - 1 <= MaxEventFiles
    /\ LET errors == EventFormErrors(start_at, end_at)
           ok == errors = {}
           newPk == IF pk = NoPk THEN nextPk["Event"] ELSE pk
           image == FormFile(stored.image, inputs[1], UploadName("events", inputs, 1))
           video == FormFile(stored.video, inputs[2], UploadName("events", inputs, 2))
           captions == FormFile(stored.video_captions, inputs[3],
                                UploadName("events", inputs, 3))
           uploaded == {<<"events", nextFile + k>> : k \in 0..(UploadCount(inputs) - 1)}
           row == [pk |-> newPk, category |-> category, start_at |-> start_at,
                   end_at |-> end_at, image |-> image, video |-> video,
                   video_captions |-> captions]
       IN  /\ events' = FormCommit(events, pk, row, errors)
           /\ storage' = IF ok THEN storage \cup uploaded ELSE storage
           /\ nextFile' = IF ok THEN nextFile + UploadCount(inputs) ELSE nextFile
           /\ nextPk' = IF ok /\ pk = NoPk THEN [nextPk EXCEPT !["Event"] = @ + 1] ELSE nextPk
           /\ last' = [op |-> "event_form", pk |-> IF ok THEN newPk ELSE pk, ok |-> ok,
                       errors |-> errors]
    /\ UNCHANGED <<sections, inflight, slugged, staff, cards, settings, about, albums, media, exams,
                   timetables, newsItems, response>>

\* the file fields of the add form: each empty or holding an upload
EventFileAdd == \E inputs \in [1..3 -> {"keep", "upload"}] :
    EventFormSave(NoPk, NoEventFiles, CategoryOther, At(<<2024, 6, 15>>, 10), NoDate, inputs)

\* the file fields of the change form: each kept, replaced by an upload, or cleared
EventFileEdit == \E r \in events, inputs \in [1..3 -> ImageInputs] :
    EventFormSave(r.pk, r, r.category, r.start_at, r.end_at, inputs)

\* the files Event.delete() removes from storage: each file field that is set
EventDeleteFiles_ImageFirst(r) ==
    IF r.image = NoFile THEN {} ELSE {r.image, r.video, r.video_captions} \ {NoFile}

EventDeleteFiles(r) ==
    (IF r.image # NoFile THEN {r.image} ELSE {})
        \cup (IF r.video # NoFile THEN {r.video} ELSE {})
        \cup (IF r.video_captions # NoFile THEN {r.video_captions} ELSE {})

\* Event.delete(): the files are removed, then the row
EventDelete == \E r \in events :
    /\ events' = events \ {r}
    /\ storage' = storage \ EventDeleteFiles(r)
    /\ last' = [op |-> "event_delete", pk |-> r.pk, ok |-> TRUE, row |-> r]
    /\ UNCHANGED <<sections, inflight, slugged, staff, cards, settings, about, albums, media, exams,
                   timetables, newsItems, response, nextPk, nextFile>>

\* "delete selected" of the admin change list: QuerySet.delete() of the selection
EventBulkDelete == \E sel \in (SUBSET events) \ {{}} :
    /\ events' = events \ sel
    /\ storage' = storage \ QuerySetDeleteFiles(sel)
    /\ last' = [op |-> "event_bulk_delete", pk |-> NoPk, ok |-> TRUE,
                pks |-> {r.pk : r \in sel}]
    /\ UNCHANGED <<sections, inflight, slugged, staff, cards, settings, about, albums, media, exams,
                   timetables, newsItems, response, nextPk, nextFile>>

----------------------------------------------------------------------------
(* Gallery: albums and their media *)

NoYear == 0

\* a new Album saved with or without a cover image
AlbumAdd == \E input \in {"keep", "upload"} :
    /\ nextPk["Album"] <= MaxAlbums
    /\ input = "upload" => nextFile <= MaxGalleryFiles
    /\ LET cover == FormFile(NoFile, input, UniqueName("gallery/photos"))
       IN  /\ albums' = albums \cup {[pk |-> nextPk["Album"], cover_image |-> cover]}
           /\ storage' = IF input = "upload" THEN storage \cup {cover} ELSE storage
           /\ nextFile' = IF input = "upload" THEN nextFile + 1 ELSE nextFile
           /\ nextPk' = [nextPk EXCEPT !["Album"] = @ + 1]
           /\ last' = [op |-> "album_add", pk |-> nextPk["Album"], ok |-> TRUE]
    /\ UNCHANGED <<sections, inflight, slugged, staff, cards, settings, about, events, media, exams,
                   timetables, newsItems, response>>

\* a new GalleryMedia row in an album or in none, saved with a photo, a video or no file
MediaAdd == \E album \in {NoPk} \cup {a.pk : a \in albums}, kind \in {"photo", "video", "none"} :
    /\ nextPk["GalleryMedia"] <= MaxMedia
    /\ kind # "none" => nextFile <= MaxGalleryFiles
    /\ LET image == IF kind = "photo" THEN UniqueName("gallery/photos") ELSE NoFile
           video == IF kind = "video" THEN UniqueName("gallery/videos") ELSE NoFile
       IN  /\ media' = media \cup {[pk |-> nextPk["GalleryMedia"], album |-> album,
                                    year |-> NoYear, image |-> image, video |-> video]}
           /\ storage' = storage \cup ({image, video} \ {NoFile})
           /\ nextFile' = IF kind = "none" THEN nextFile ELSE nextFile + 1
           /\ nextPk' = [nextPk EXCEPT !["GalleryMedia"] = @ + 1]
           /\ last' = [op |-> "media_add", pk |-> nextPk["GalleryMedia"], ok |-> TRUE]
    /\ UNCHANGED <<sections, inflight, slugged, staff, cards, settings, about, events, albums, exams,
                   timetables, newsItems, response>>

\* on_delete of GalleryMedia.album removing the rows of the album
OnAlbumDelete_Cascade(rows, albumPk) == {r \in rows : r.album # albumPk}

\* on_delete = SET_NULL of GalleryMedia.album: the rows of the deleted album stay and
\* lose their album reference
OnAlbumDelete(rows, albumPk) ==
    {IF r.album = albumPk THEN [r EXCEPT !.album = NoPk] ELSE r : r \in rows}

\* Album.delete() of the album a: the cover image is removed, then the row, and the
\* collector applies on_delete to the media of the album
AlbumDeleteOf(a) ==
    /\ a \in albums
    /\ albums' = albums \ {a}
    /\ media' = OnAlbumDelete(media, a.pk)
    /\ storage' = IF a.cover_image # NoFile THEN storage \ {a.cover_image} ELSE storage
    /\ last' = [op |-> "album_delete", pk |-> a.pk, ok |-> TRUE,
                referenced |-> {r.pk : r \in {x \in media : x.album = a.pk}}]
    /\ UNCHANGED <<sections, inflight, slugged, staff, cards, settings, about, events, exams, timetables,
                   newsItems, response, nextPk, nextFile>>

AlbumDelete == \E a \in albums : AlbumDeleteOf(a)

\* GalleryMedia.delete(): the image and the video are removed, then the row
MediaDelete == \E r \in media :
    /\ media' = media \ {r}
    /\ storage' = storage \ ({r.image, r.video} \ {NoFile})
    /\ last' = [op |-> "media_delete", pk |-> r.pk, ok |-> TRUE]
    /\ UNCHANGED <<sections, inflight, slugged, staff, cards, settings, about, events, albums, exams,
                   timetables, newsItems, response, nextPk, nextFile>>

\* "delete selected" of the GalleryMedia change list: QuerySet.delete() of the selection
MediaBulkDelete == \E sel \in (SUBSET media) \ {{}} :
    /\ media' = media \ sel
    /\ storage' = storage \ QuerySetDeleteFiles(sel)
    /\ last' = [op |-> "media_bulk_delete", pk |-> NoPk, ok |-> TRUE]
    /\ UNCHANGED <<sections, inflight, slugged, staff, cards, settings, about, events, albums, exams,
                   timetables, newsItems, response, nextPk, nextFile>>

----------------------------------------------------------------------------
(* Request parameters: int() and _parse_date *)

\* the outcome of a conversion that raised
Unparsed == [ok |-> FALSE]

IsDigits(s) == \A i \in DOMAIN s : s[i] \in DigitChars

DigitVal(c) == CHOOSE d \in 0..9 : DigitChar(d) = c

RECURSIVE NumVal(_)
NumVal(s) == IF s = <<>> THEN 0
             ELSE NumVal(SubSeq(s, 1, Len(s) - 1)) * 10 + DigitVal(s[Len(s)])

\* int(s) of a stripped string: an optional sign, then digits that single underscores
\* may separate; anything else raises ValueError
ParseInt(s) ==
    LET signed == s # <<>> /\ s[1] \in {"+", "-"}
        body == IF signed THEN Tail(s) ELSE s
        wellFormed ==
            /\ body # <<>>
            /\ \A i \in DOMAIN body :
                  \/ body[i] \in DigitChars
                  \/ /\ body[i] = "_" /\ 1 < i /\ i < Len(body)
                     /\ body[i - 1] \in DigitChars /\ body[i + 1] \in DigitChars
    IN  IF wellFormed
        THEN [ok |-> TRUE,
              value |-> (IF s[1] = "-" THEN -1 ELSE 1) * NumVal(SelectSeq(body, LAMBDA c : c # "_"))]
        ELSE Unparsed

\* the days of a month of the calendar
DaysIn(y, mo) ==
    IF mo = 2 THEN (IF (y % 4 = 0 /\ y % 100 # 0) \/ y % 400 = 0 THEN 29 ELSE 28)
    ELSE IF mo \in {4, 6, 9, 11} THEN 30 ELSE 31

\* datetime.strptime(s, "%Y-%m-%d"): four digits, one or two digits, one or two digits,
\* separated by "-", naming a day of the calendar; anything else raises ValueError
StrpDate(s) ==
    LET dashes == {i \in DOMAIN s : s[i] = "-"}
        i == CHOOSE x \in dashes : \A y \in dashes : x <= y
        j == CHOOSE x \in dashes : \A y \in dashes : y <= x
        ys == SubSeq(s, 1, i - 1)
        ms == SubSeq(s, i + 1, j - 1)
        ds == SubSeq(s, j + 1, Len(s))
    IN  IF /\ Cardinality(dashes) = 2
           /\ Len(ys) = 4 /\ IsDigits(ys) /\ NumVal(ys) >= 1
           /\ Len(ms) \in 1..2 /\ IsDigits(ms) /\ NumVal(ms) \in 1..12
           /\ Len(ds) \in 1..2 /\ IsDigits(ds)
           /\ NumVal(ds) \in 1..DaysIn(NumVal(ys), NumVal(ms))
        THEN [ok |-> TRUE, value |-> <<NumVal(ys), NumVal(ms), NumVal(ds)>>]
        ELSE Unparsed

\* _parse_date(value): None for a missing or empty value and for one strptime refuses
ParseDate(value) == IF value = <<>> THEN Unparsed ELSE StrpDate(value)

----------------------------------------------------------------------------
(* Public list views *)

\* the rows of a queryset in some order; order_by is SortSeq over them, with a
\* comparison that ranks rows equal on the ordering columns by primary key
RECURSIVE SetToSeq(_)
SetToSeq(S) == IF S = {} THEN <<>>
               ELSE LET x == CHOOSE y \in S : TRUE IN <<x>> \o SetToSeq(S \ {x})

Pks(rows) == [i \in DOMAIN rows |-> rows[i].pk]

\* exact-match filter on an integer column with int(raw) of the request parameter,
\* refusing every row when the parameter does not parse
IntFilter_Strict(rows, raw, column) ==
    IF raw # <<>>
    THEN IF ParseInt(raw).ok
         THEN {r \in rows : r[column] = ParseInt(raw).value} ELSE {}
    ELSE rows

\* if raw: try: qs = qs.filter(column=int(raw)) except ValueError: pass
\* (a null column matches no value)
IntFilter(rows, raw, column) ==
    IF raw # <<>>
    THEN IF ParseInt(raw).ok
         THEN {r \in rows : r[column] # NoYear /\ r[column] = ParseInt(raw).value}
         ELSE rows
    ELSE rows

\* date filters comparing the date-time of the row with midnight of the bounds
DateRangeFilter_Midnight(rows, fromRaw, toRaw, column) ==
    {r \in rows :
        /\ ParseDate(fromRaw).ok => ~DateTimeLT(r[column], At(ParseDate(fromRaw).value, 0))
        /\ ParseDate(toRaw).ok => ~DateTimeLT(At(ParseDate(toRaw).value, 0), r[column])}

\* if dfrom: filter(column__date__gte=dfrom.date()); if dto: filter(column__date__lte=dto.date())
DateRangeFilter(rows, fromRaw, toRaw, column) ==
    {r \in rows :
        /\ ParseDate(fromRaw).ok => DateLE(ParseDate(fromRaw).value, r[column].date)
        /\ ParseDate(toRaw).ok => DateLE(r[column].date, ParseDate(toRaw).value)}

StartsBefore(a, b) ==
    DateTimeLT(a.start_at, b.start_at) \/ (a.start_at = b.start_at /\ a.pk < b.pk)

StartsAfter(a, b) ==
    DateTimeLT(b.start_at, a.start_at) \/ (a.start_at = b.start_at /\ a.pk < b.pk)

\* events(): category and date filters, then the next ListLimit events from now on in
\* ascending order of start and the last ListLimit events before now in descending order
EventsList(rows, type_, fromRaw, toRaw, now) ==
    LET typed == IF type_ # "" THEN {r \in rows : r.category = type_} ELSE rows
        base == DateRangeFilter(typed, fromRaw, toRaw, "start_at")
        upcoming == SortSeq(SetToSeq({r \in base : ~DateTimeLT(r.start_at, now)}), StartsBefore)
        past == SortSeq(SetToSeq({r \in base : DateTimeLT(r.start_at, now)}), StartsAfter)
    IN  [status |-> 200,
         events_upcoming |-> Pks(Take(upcoming, ListLimit)),
         events_past |-> Pks(Take(past, ListLimit))]

ExamBefore(a, b) ==
    \/ DateLT(a.exam_date, b.exam_date)
    \/ a.exam_date = b.exam_date /\ a.semester < b.semester
    \/ a.exam_date = b.exam_date /\ a.semester = b.semester /\ a.pk < b.pk

ExamAfter(a, b) ==
    DateLT(b.exam_date, a.exam_date) \/ (a.exam_date = b.exam_date /\ a.pk < b.pk)

\* exams(): semester filter, lower date bound, then upcoming and past exams; the "to"
\* parameter of the request is never read
ExamsList(rows, semester, fromRaw, toRaw, today) ==
    LET bySemester == IntFilter(rows, semester, "semester")
        base == IF ParseDate(fromRaw).ok
                THEN {r \in bySemester : DateLE(ParseDate(fromRaw).value, r.exam_date)}
                ELSE bySemester
        upcoming == SortSeq(SetToSeq({r \in base : DateLE(today, r.exam_date)}), ExamBefore)
        past == SortSeq(SetToSeq({r \in base : DateLT(r.exam_date, today)}), ExamAfter)
    IN  [status |-> 200,
         exams_upcoming |-> Pks(Take(upcoming, ExamsLimit)),
         exams_past |-> Pks(Take(past, ExamsLimit))]

\* rows are created in the order of their primary keys: newest first
Newest(a, b) == a.pk > b.pk

\* timetables(): semester filter, newest first
TimetablesList(rows, semester) ==
    [status |-> 200, timetables |-> Pks(SortSeq(SetToSeq(IntFilter(rows, semester, "semester")), Newest))]

\* gallery(): media-type and year filters, newest first (the items handed to the paginator)
GalleryList(rows, year) ==
    [status |-> 200, gallery_items |-> Pks(SortSeq(SetToSeq(IntFilter(rows, year, "year")), Newest))]

NewsNewest(a, b) ==
    DateTimeLT(b.published_at, a.published_at) \/ (a.published_at = b.published_at /\ a.pk > b.pk)

\* news(): date filters on the publication date, newest first (the items handed to the
\* paginator)
NewsList(rows, fromRaw, toRaw) ==
    [status |-> 200,
     news_list |-> Pks(SortSeq(SetToSeq(DateRangeFilter(rows, fromRaw, toRaw, "published_at")), NewsNewest))]

\* request parameters
RawD1 == <<"2", "0", "2", "4", "-", "0", "1", "-", "0", "1">>
RawD2 == <<"2", "0", "2", "4", "-", "1", "2", "-", "3", "1">>
RawDates == {<<>>, RawD1, RawD2,
             <<"2", "0", "2", "4", "-", "6", "-", "1", "5">>,
             <<"2", "0", "2", "4", "-", "0", "2", "-", "3", "0">>,
             <<"0", "1", "-", "0", "1", "-", "2", "0", "2", "4">>}

RawInts == {<<>>, <<"2">>, <<"0", "2">>, <<"a", "b", "c">>, <<"2", "a">>, <<"2", "_">>}
RawYears == {<<>>, <<"2", "0", "2", "4">>, <<"2", "0", "x", "4">>, <<"-">>}

Nows == {At(<<2023, 1, 1>>, 0), At(<<2024, 6, 15>>, 12)}
Today == <<2024, 6, 15>>

\* the stored rows the lists are served from: n rows per table, their dates and
\* columns spread over the values below by the row number
QueryDates == <<<<2024, 6, 15>>, <<2023, 12, 31>>, <<2024, 1, 1>>, <<2024, 12, 31>>,
                <<2025, 1, 1>>>>

StoreDate(k, p) == QueryDates[((k * p) % Len(QueryDates)) + 1]

StoreTime(k, p) == At(StoreDate(k, p), IF k % 3 = 0 THEN 0 ELSE 15)

EventStore(n, p) ==
    {[pk |-> k, category |-> IF k % 2 = 0 THEN CategorySeminar ELSE CategoryOther,
      start_at |-> StoreTime(k, p), end_at |-> NoDate,
      image |-> NoFile, video |-> NoFile, video_captions |-> NoFile] : k \in 1..n}

ExamStore(n, p) ==
    {[pk |-> k, semester |-> (k % 3) + 1, exam_date |-> StoreDate(k, p),
      pdf_file |-> NoFile] : k \in 1..n}

InitQuery ==
    \E n \in 0..MaxQueryRows, p \in {0, 1} :
        /\ slugged = [m \in SlugModels |-> {}]
        /\ staff = {}
        /\ cards = {}
        /\ settings = {}
        /\ about = {}
        /\ events = EventStore(n, p)
        /\ albums = {}
        /\ media = {[pk |-> k, album |-> NoPk,
                      year |-> IF k % 3 = 0 THEN NoYear ELSE 2023 + (k % 3) - 1,
                      image |-> NoFile, video |-> NoFile] : k \in 1..n}
        /\ exams = ExamStore(n, p)
        /\ timetables = {[pk |-> k, semester |-> (k % 3) + 1] : k \in 1..n}
        /\ newsItems = {[pk |-> k, published_at |-> StoreTime(k, p)] : k \in 1..n}
        /\ response = [view |-> "none"]
        /\ sections = {}
        /\ inflight = [q \in Requests |-> Idle]
        /\ storage = {}
        /\ nextPk = [m \in Models |->
                       IF m \in {"Event", "Exam", "ClassTimetable", "GalleryMedia", "News"}
                       THEN n + 1 ELSE 1]
        /\ nextFile = 1
        /\ last = [op |-> "none"]

\* a list view reads the store and writes nothing; each behaviour serves one request
\* from the store it starts with
stored == <<slugged, staff, cards, settings, about, events, albums, media, exams,
            timetables, newsItems, sections, inflight, storage, nextPk, nextFile, last>>

EventsRequest == \E type_ \in {"", CategorySeminar}, fromRaw \in RawDates, toRaw \in RawDates,
                    now \in Nows :
    /\ response.view = "none"
    /\ response' = [view |-> "events", type |-> type_, from |-> fromRaw, to |-> toRaw,
                    now |-> now, result |-> EventsList(events, type_, fromRaw, toRaw, now)]
    /\ UNCHANGED stored

ExamsRequest == \E semester \in RawInts, fromRaw \in RawDates, toRaw \in {<<>>, RawD1, <<"x">>} :
    /\ response.view = "none"
    /\ response' = [view |-> "exams", semester |-> semester, from |-> fromRaw, to |-> toRaw,
                    result |-> ExamsList(exams, semester, fromRaw, toRaw, Today)]
    /\ UNCHANGED stored

TimetablesRequest == \E semester \in RawInts :
    /\ response.view = "none"
    /\ response' = [view |-> "timetables", semester |-> semester,
                    result |-> TimetablesList(timetables, semester)]
    /\ UNCHANGED stored

GalleryRequest == \E year \in RawYears :
    /\ response.view = "none"
    /\ response' = [view |-> "gallery", year |-> year, result |-> GalleryList(media, year)]
    /\ UNCHANGED stored

NewsRequest == \E fromRaw \in RawDates, toRaw \in RawDates :
    /\ response.view = "none"
    /\ response' = [view |-> "news", from |-> fromRaw, to |-> toRaw,
                    result |-> NewsList(newsItems, fromRaw, toRaw)]
    /\ UNCHANGED stored

----------------------------------------------------------------------------
(* Section images and the shared template context *)

\* add view of the SectionImage admin: the key is free text and not unique, the
\* image is required
SectionAdd == \E key \in {"about", "bottom", "hero"} :
    /\ nextPk["SectionImage"] <= MaxSections
    /\ nextFile <= MaxFiles
    /\ sections' = sections \cup {[pk |-> nextPk["SectionImage"], key |-> key,
                                    image |-> UniqueName("sections")]}
    /\ storage' = storage \cup {UniqueName("sections")}
    /\ nextFile' = nextFile + 1
    /\ nextPk' = [nextPk EXCEPT !["SectionImage"] = @ + 1]
    /\ last' = [op |-> "section_add", pk |-> nextPk["SectionImage"]]
    /\ UNCHANGED <<events, albums, media, exams, timetables, newsItems, response, inflight,
                   slugged, staff, cards, settings, about>>

\* SectionImage.delete(): the image file is deleted, then the row
SectionDelete == \E r \in sections :
    /\ sections' = sections \ {r}
    /\ storage' = storage \ {r.image}
    /\ last' = [op |-> "section_delete", pk |-> r.pk]
    /\ UNCHANGED <<events, albums, media, exams, timetables, newsItems, response, inflight,
                   slugged, staff, cards, settings, about, nextPk, nextFile>>

\* order_by("-created_at").first(): the row created last (rows are created in the
\* order of their pk), as [model, pk]; None is [model |-> "None", pk |-> NoPk]
Latest(model, rows) ==
    IF rows = {}
    THEN [model |-> "None", pk |-> NoPk]
    ELSE [model |-> model, pk |-> (CHOOSE r \in rows : \A x \in rows : x.pk <= r.pk).pk]

\* _common_context: about_image and bottom_image
CommonContext(sectionRows, aboutRows) ==
    LET None == Latest("None", {})
        byAbout == Latest("SectionImage", {r \in sectionRows : r.key = "about"})
        byBottom == Latest("SectionImage", {r \in sectionRows : r.key = "bottom"})
        about_section == IF byAbout = None THEN Latest("SectionImage", sectionRows)
                         ELSE byAbout
        bottom_section ==
            IF byBottom = None
            THEN Latest("SectionImage", {r \in sectionRows : r.pk # about_section.pk})
            ELSE byBottom
    IN  [about_image |-> IF about_section # None THEN about_section
                         ELSE Latest("AboutImage", aboutRows),
         bottom_image |-> bottom_section]

\* a public page rendered with the shared context
ContextRequest ==
    /\ response.view = "none"
    /\ response' = [view |-> "context", result |-> CommonContext(sections, about)]
    /\ UNCHANGED stored

----------------------------------------------------------------------------
(* Staff list view *)

\* the rank of a role in the order of the stored strings
RoleRank(role) ==
    CASE role = RoleAssistant -> 1
      [] role = RoleHOD -> 2
      [] role = RoleProfessor -> 3

\* order_by("order", "role", "name"): rows carry no name, equal rows rank by primary key
StaffBefore(a, b) ==
    \/ a.order < b.order
    \/ a.order = b.order /\ RoleRank(a.role) < RoleRank(b.role)
    \/ a.order = b.order /\ a.role = b.role /\ a.pk < b.pk

\* staff(): the role filter, then the ordering of the view
StaffList(rows, role) ==
    LET byRole == IF role # "" THEN {r \in rows : r.role = role} ELSE rows
    IN  [status |-> 200, all_staff |-> SortSeq(SetToSeq(byRole), StaffBefore)]

\* hod_list of staff(): the rows of the role-filtered list that are flagged or have
\* the HOD role
HodList(rows, role) ==
    {r \in rows : (role = "" \/ r.role = role) /\ (r.is_hod \/ r.role = RoleHOD)}

StaffRequest == \E role \in {""} \cup StaffRoles :
    /\ response' = [view |-> "staff", role |-> role, result |-> StaffList(staff, role)]
    /\ UNCHANGED stored

----------------------------------------------------------------------------
(* Exams: validation *)

\* Exam.clean(): an exam date before the year 2000 is refused
ExamClean(exam_date) ==
    IF exam_date # NoDate /\ exam_date[1] < 2000
    THEN {[field |-> "exam_date", message |-> "Exam date looks invalid."]}
    ELSE {}

\* validation of the admin form of an Exam: exam_date is a required column, then clean()
ExamFormErrors(exam_date) ==
    (IF exam_date = NoDate THEN {[field |-> "exam_date", message |-> "required"]} ELSE {})
        \cup ExamClean(exam_date)

\* add / change view of the Exam admin: the form is validated and, when valid, the row
\* is saved and a new upload is written to storage
ExamFormSave(pk, stored_pdf, semester, exam_date, input) ==
    /\ IF pk = NoPk THEN nextPk["Exam"] <= MaxExams ELSE TRUE
    /\ input = "upload" => nextFile <= MaxFiles
    /\ LET errors == ExamFormErrors(exam_date)
           ok == errors = {}
           newPk == IF pk = NoPk THEN nextPk["Exam"] ELSE pk
           pdf == FormFile(stored_pdf, input, UniqueName("exams"))
           row == [pk |-> newPk, semester |-> semester, exam_date |-> exam_date,
                   pdf_file |-> pdf]
       IN  /\ exams' = FormCommit(exams, pk, row, errors)
           /\ storage' = IF ok /\ input = "upload" THEN storage \cup {pdf} ELSE storage
           /\ nextFile' = IF ok /\ input = "upload" THEN nextFile + 1 ELSE nextFile
           /\ nextPk' = IF ok /\ pk = NoPk THEN [nextPk EXCEPT !["Exam"] = @ + 1] ELSE nextPk
           /\ last' = [op |-> "exam_form", pk |-> IF ok THEN newPk ELSE pk, ok |-> ok,
                       errors |-> errors]
    /\ UNCHANGED <<sections, inflight, slugged, staff, cards, settings, about, events, albums, media,
                   timetables, newsItems, response>>

\* exam dates submitted: none, the last day refused and the first day accepted
ExamFormAdd == \E d \in {NoDate, <<1999, 12, 31>>, <<2000, 1, 1>>}, input \in {"keep", "upload"} :
                   ExamFormSave(NoPk, NoFile, 1, d, input)

ExamFormEdit == \E r \in exams, d \in {NoDate, <<1999, 12, 31>>, <<2000, 1, 1>>}, input \in {"keep", "upload"} :
                    ExamFormSave(r.pk, r.pdf_file, r.semester, d, input)

\* the start and end times submitted with an Event, with or without an image
EventTimes ==
    {NoDate, At(<<2024, 6, 15>>, 10)}
        \X {NoDate, At(<<2024, 6, 15>>, 9), At(<<2024, 6, 15>>, 10), At(<<2024, 6, 14>>, 23)}
        \X {<<"keep", "keep", "keep">>, <<"upload", "keep", "keep">>}

EventDatedAdd == \E in \in EventTimes :
    EventFormSave(NoPk, NoEventFiles, CategoryOther, in[1], in[2], in[3])

EventDatedEdit == \E r \in events, in \in EventTimes :
    EventFormSave(r.pk, r, r.category, in[1], in[2], in[3])

\* the validated tables never read each other: a run writes to one of them
WritesOnly(m) == \A m2 \in {"HighlightCard", "Exam", "Event"} \ {m} : nextPk[m2] = 1

----------------------------------------------------------------------------

Init ==
    /\ slugged = [m \in SlugModels |-> {}]
    /\ staff = {}
    /\ cards = {}
    /\ settings = {}
    /\ about = {}
    /\ events = {}
    /\ albums = {}
    /\ media = {}
    /\ exams = {}
    /\ timetables = {}
    /\ newsItems = {}
    /\ response = [view |-> "none"]
    /\ sections = {}
    /\ inflight = [q \in Requests |-> Idle]
    /\ storage = {}
    /\ nextPk = [m \in Models |-> 1]
    /\ nextFile = 1
    /\ last = [op |-> "none"]

NextSlug == SlugCreate \/ SlugUpdate

SpecSlug == Init /\ [][NextSlug]_vars

NextStaff == StaffCreate \/ StaffFormEdit \/ StaffListEdit

SpecStaff == Init /\ [][NextStaff]_vars

NextCard == CardFormAdd \/ CardFormEdit \/ CardListEdit \/ CardDelete

SpecCard == Init /\ [][NextCard]_vars

NextSingleton ==
    \/ SettingsAdminAdd \/ SettingsAdminEdit \/ SettingsDelete
    \/ AboutImageCreate \/ AboutImageUpdate \/ AboutImageDelete

SpecSingleton == Init /\ [][NextSingleton]_vars

\* concurrent add requests of the highlight-card admin, and the change list
SpecCardRace == Init /\ [][CardValidate \/ CardCommit \/ CardListEdit]_vars

\* AboutImage rows added through the admin, replaced by callers of save() served
\* at the same time, changed and deleted
SpecAbout ==
    Init /\ [][\/ AboutAdminAdd \/ AboutPurgeStep \/ AboutInsertStep
               \/ AboutImageUpdate \/ AboutImageDelete]_vars

\* cards added through the form or stored without image, switched in the change list
\* and submitted again unchanged
SpecCardCap == Init /\ [][CardFormAdd \/ CardModelCreate \/ CardListEdit \/ CardResave]_vars

\* files of Event rows
SpecFiles ==
    Init /\ [][EventFileAdd \/ EventFileEdit \/ EventDelete \/ EventBulkDelete]_vars

\* albums and their media
SpecGallery ==
    Init /\ [][AlbumAdd \/ MediaAdd \/ AlbumDelete \/ MediaDelete \/ MediaBulkDelete]_vars

\* operations that create, replace or delete the files of rows
SpecOwnership ==
    Init /\ [][\/ EventFileAdd \/ EventFileEdit \/ EventDelete \/ EventBulkDelete
               \/ MediaAdd \/ MediaDelete \/ AboutImageCreate]_vars

\* the public lists, each served from the store the behaviour starts with
SpecQuery ==
    InitQuery /\ [][\/ EventsRequest \/ ExamsRequest \/ TimetablesRequest
                    \/ GalleryRequest \/ NewsRequest]_vars

\* section images and the AboutImage added and deleted, then a page served
SpecContext ==
    Init /\ [][\/ response.view = "none" /\ (SectionAdd \/ SectionDelete \/ AboutAdminAdd)
               \/ ContextRequest]_vars

\* the staff admin with its bulk action
SpecStaffAdmin == Init /\ [][StaffCreate \/ StaffFormEdit \/ MakeHod]_vars

\* staff rows added while no other request is served, and flagged as HOD by
\* concurrent requests
SpecStaffRace ==
    Init /\ [][\/ (\A p \in Requests : inflight[p] = Idle) /\ StaffCreate
               \/ StaffHookStep \/ StaffWriteStep]_vars

\* the staff table and its public list
SpecStaffList == Init /\ [][StaffCreate \/ StaffRequest]_vars

\* writes through the validating forms
SpecWrites ==
    Init /\ [][\/ WritesOnly("HighlightCard") /\ (CardFormAdd \/ CardFormEdit)
               \/ WritesOnly("Exam") /\ (ExamFormAdd \/ ExamFormEdit)
               \/ WritesOnly("Event") /\ (EventDatedAdd \/ EventDatedEdit)]_vars

Next ==
    \/ NextSlug \/ NextStaff \/ NextCard \/ NextSingleton
    \/ EventFileAdd \/ EventFileEdit \/ EventDatedAdd \/ EventDatedEdit
    \/ EventDelete \/ EventBulkDelete
    \/ AlbumAdd \/ MediaAdd \/ AlbumDelete \/ MediaDelete \/ MediaBulkDelete
    \/ ExamFormAdd \/ ExamFormEdit
    \/ EventsRequest \/ ExamsRequest \/ TimetablesRequest \/ GalleryRequest \/ NewsRequest
    \/ StaffRequest \/ MakeHod \/ CardModelCreate \/ CardResave
    \/ CardValidate \/ CardCommit \/ StaffHookStep \/ StaffWriteStep
    \/ AboutAdminAdd \/ AboutPurgeStep \/ AboutInsertStep
    \/ SectionAdd \/ SectionDelete \/ ContextRequest

Spec == Init /\ [][Next]_vars

----------------------------------------------------------------------------
(* Staff claims *)

\* C3: after any sequence of sequential StaffProfile saves, each running the
\* pre-save HOD hook before the row is written, at most one row has is_hod = true.
C3_AtMostOneHod == Cardinality(HodPks(staff)) <= 1

\* a save with is_hod = true was made while another row held the flag
C3_Witness ==
    /\ last.op = "staff_save"
    /\ last.is_hod
    /\ Cardinality(staff) >= 3
    /\ last.hodBefore \ {last.pk} # {}

\* C4: when staff row A has is_hod = true and a different row B is saved with
\* is_hod = true, then after the save A has is_hod = false and B has is_hod = true.
C4_HodHandover ==
    (last.op = "staff_save" /\ last.is_hod) =>
        /\ \E b \in staff : b.pk = last.pk /\ b.is_hod
        /\ \A a \in staff : (a.pk \in last.hodBefore /\ a.pk # last.pk) => ~a.is_hod

\* row B was saved with is_hod = true while another row A held the flag
C4_Witness ==
    /\ last.op = "staff_save"
    /\ last.is_hod
    /\ \E a, b \in staff :
          a.pk \in last.hodBefore /\ a.pk # last.pk /\ ~a.is_hod /\ b.pk = last.pk /\ b.is_hod

\* the staff rows in the displayed order of the data model: HOD first, then ascending
\* order, then role
DisplayedBefore(a, b) ==
    \/ a.is_hod /\ ~b.is_hod
    \/ a.is_hod = b.is_hod /\ a.order < b.order
    \/ a.is_hod = b.is_hod /\ a.order = b.order /\ RoleRank(a.role) < RoleRank(b.role)

\* C18: the staff list served to visitors has the HOD row first, then the rows by
\* ascending order, then by role, for every set of rows and every role filter.
C18_HodFirstOrder ==
    response.view = "staff" =>
        LET shown == response.result.all_staff
        IN  \A i \in DOMAIN shown, j \in DOMAIN shown :
                i < j => ~DisplayedBefore(shown[j], shown[i])

\* C19: after any sequence of StaffProfile saves, every row whose role is HOD has
\* is_hod = true.
C19_HodRoleHasFlag == \A r \in staff : r.role = RoleHOD => r.is_hod

\* C22: when a staff row is saved as HOD (is_hod = true or role = HOD), every other
\* row has is_hod cleared and keeps its role unless its role was HOD, which becomes
\* Professor; its other columns are unchanged.
C22_OnlyHodRoleDemoted ==
    [][(last'.op = "staff_save"
          /\ \E s \in staff' : s.pk = last'.pk /\ (s.is_hod \/ s.role = RoleHOD)) =>
          \A r \in staff : r.pk # last'.pk =>
              \E n \in staff' :
                  /\ n.pk = r.pk
                  /\ ~n.is_hod
                  /\ n.role = IF r.role = RoleHOD THEN RoleProfessor ELSE r.role
                  /\ n.order = r.order]_vars

\* C23: the bulk action "set as HOD" on a selection of several rows flags the first
\* selected row only: afterwards the first row is the one row with is_hod = true, so
\* the other selected rows are not flagged; on an empty selection the table is
\* unchanged.
C23_FirstSelectedOnly ==
    [][last'.op = "make_hod" =>
          IF last'.selected = {}
          THEN staff' = staff
          ELSE /\ last'.pk \in last'.selected
               /\ {r.pk : r \in staff'} = {r.pk : r \in staff}
               /\ \A r \in staff' : r.is_hod <=> r.pk = last'.pk]_vars

\* the action ran on several rows, one of which, not the first, held the flag
C23_Witness ==
    /\ last.op = "make_hod"
    /\ Cardinality(last.selected) >= 2
    /\ (last.hodBefore \cap last.selected) \ {last.pk} # {}
    /\ HodPks(staff) = {last.pk}

\* C29: after any sequence of sequential StaffProfile saves starting from an empty
\* table, at most one row is flagged or has the HOD role, so the hod_list of the staff
\* view holds at most one row, whatever the role filter.
C29_OneRowInHodList ==
    \A role \in {""} \cup StaffRoles : Cardinality(HodList(staff, role)) <= 1

\* a row was saved with the HOD role and no flag while another row held the flag
C29_Witness ==
    /\ last.op = "staff_save"
    /\ ~last.is_hod
    /\ \E s \in staff : s.pk = last.pk /\ s.role = RoleHOD
    /\ last.hodBefore \ {last.pk} # {}
    /\ Cardinality(HodList(staff, "")) = 1

\* C26: clearing the HOD flag on the other rows and writing the triggering row are
\* one atomic step: when concurrent saves that each set is_hod = true on a different
\* row have all completed, whatever the interleaving of their clear-others steps and
\* their own-row writes, at most one row has is_hod = true.
C26_NoTwoHodsAfterRace ==
    (\A p \in Requests : inflight[p] = Idle) => Cardinality(HodPks(staff)) <= 1

----------------------------------------------------------------------------
(* Highlight-card claims *)

\* the rows that are active and have an image
ActiveWithImage == {r \in cards : r.is_active /\ HasImage(r)}

\* the rows other than the one the last operation was about
OtherActive == {r \in ActiveWithImage : r.pk # last.pk}

\* C5: in every state reachable by sequential admin operations on HighlightCard (add
\* and edit through the form, inline list edit of order / is_active, delete), at most
\* 3 rows are active and have an image.
C5_ActiveCap == Cardinality(ActiveWithImage) <= MAX_ACTIVE

\* C6: saving a card as active with an image through the admin form is rejected, with
\* an error naming the current count and the cap, when 3 (or more) other rows are
\* active with an image; with fewer than 3 such rows (after one is deactivated) the
\* same save succeeds and the card is stored active.
C6_CapRejection ==
    (last.op = "card_form" /\ last.is_active /\ last.hasImage) =>
        IF Cardinality(OtherActive) >= MAX_ACTIVE
        THEN /\ ~last.ok
             /\ [code |-> "cap", count |-> Cardinality(OtherActive), max |-> MAX_ACTIVE]
                    \in last.errors
        ELSE /\ last.ok
             /\ \E r \in ActiveWithImage : r.pk = last.pk

\* a 4th card submitted as active with an image while exactly 3 are active: rejected
C6_Witness ==
    /\ last.op = "card_form"
    /\ last.created
    /\ last.is_active /\ last.hasImage
    /\ Cardinality(ActiveWithImage) = MAX_ACTIVE
    /\ ~last.ok

\* C7: saving a HighlightCard through the admin form with no image fails validation,
\* whatever the number of active cards and whatever the value of is_active.
C7_ImageRequired ==
    (last.op = "card_form" /\ ~last.hasImage) =>
        ~last.ok /\ [code |-> "image_required"] \in last.errors

\* an inactive card submitted without image while the cap is reached: rejected
C7_Witness ==
    /\ last.op = "card_form"
    /\ ~last.hasImage /\ ~last.is_active
    /\ Cardinality(ActiveWithImage) = MAX_ACTIVE
    /\ ~last.ok

\* C24: the cap check of the admin form counts neither the row being edited nor the
\* rows without an image: a card saved as active with an image is accepted exactly
\* when fewer than 3 other rows are active with an image, so a card that is one of
\* exactly 3 active cards with images is saved again, also beside active rows that
\* have no image.
C24_CapCountsOthersWithImage ==
    (last.op = "card_form" /\ last.is_active /\ last.hasImage) =>
        (last.ok <=>
            Cardinality({r \in cards : r.pk # last.pk /\ r.is_active /\ r.image # NoFile})
                < MAX_ACTIVE)

\* a card that is one of exactly 3 active cards with images was submitted again and
\* accepted, while an active row without image is stored
C24_Witness ==
    /\ last.op = "card_form" /\ ~last.created /\ last.ok
    /\ Cardinality(ActiveWithImage) = MAX_ACTIVE
    /\ \E r \in ActiveWithImage : r.pk = last.pk
    /\ \E r \in cards : r.is_active /\ ~HasImage(r)

----------------------------------------------------------------------------
(* Singleton claims *)

\* C8: after any sequence of sequential admin add and delete operations on
\* DepartmentSettings at most one row exists: the add is denied whenever a row exists.
C8_SettingsSingleton ==
    /\ Cardinality(settings) <= 1
    /\ (last.op = "settings_add" /\ last.existedBefore # {}) => ~last.ok

\* an add was attempted while a row existed
C8_Witness ==
    /\ last.op = "settings_add"
    /\ last.existedBefore # {}
    /\ Cardinality(settings) = 1

\* C9: after a new AboutImage row is created by save() while one or more rows
\* exist, exactly one AboutImage row exists and it is the newly created one.
C9_AboutReplaced ==
    (last.op = "about_save" /\ last.created /\ last.existedBefore # {}) =>
        /\ Cardinality(about) = 1
        /\ \A r \in about : r.pk = last.pk /\ r.pk \notin last.existedBefore

\* a new AboutImage was saved while a row existed
C9_Witness ==
    /\ last.op = "about_save"
    /\ last.created
    /\ last.existedBefore # {}
    /\ about # {}

\* C10: when a new AboutImage row is created while a previous row exists, the image
\* file owned by the previous row is removed from storage as part of that create.
C10_PreviousFileRemoved ==
    (last.op = "about_save" /\ last.created) => last.purgedFiles \cap storage = {}

\* C27: when a new AboutImage is created while a row exists, the purge of the
\* existing rows and the insert of the new row are one atomic step: in no state
\* between them does a reader find the table empty.
C27_NoEmptyWindow ==
    (\E p \in Requests : inflight[p].step = "about_purged") => about # {}

\* C28: the creation of an AboutImage is admitted unconditionally: an add made while
\* a row exists is never refused.
C28_CreateNeverRefused ==
    (last.op \in {"about_add", "about_save", "about_insert"} /\ last.existedBefore # {})
        => last.ok

----------------------------------------------------------------------------
(* Slug claims *)

\* C1: after any sequence of creates and updates of Event, News or Album rows that
\* go through the pre-save slug hook, no two rows of the same type have the same slug.
C1_SlugsUnique ==
    \A m \in SlugModels : \A r1, r2 \in slugged[m] : r1.slug = r2.slug => r1.pk = r2.pk

SlugA == <<"a">>

\* three rows of one table whose slugs are a, a-2 and a-3
C1_Witness ==
    \E m \in SlugModels : \E r1, r2, r3 \in slugged[m] :
        /\ r1.slug = SlugA
        /\ r2.slug = SlugA \o Suffix(2)
        /\ r3.slug = SlugA \o Suffix(3)

\* the slugs of the rows of a table other than row pk
OtherSlugs(rows, pk) == {r.slug : r \in {x \in rows : x.pk # pk}}

\* the least n >= 2 whose candidate Cand[n] is not among others
LeastFree(Cand, others) ==
    CHOOSE n \in 2..(Cardinality(others) + 2) :
        Cand[n] \notin others /\ \A k \in 2..(n - 1) : Cand[k] \in others

\* the slug the amended C2 names for a new row of table m
C2_Expected(m, rows, title, token) ==
    LET norm == SlugifyOf[title]
        base == IF norm = <<>> THEN token ELSE Take(norm, SlugMaxLen(m))
        others == OtherSlugs(rows, NoPk)
        Cand == [n \in 2..(Cardinality(others) + 2) |->
                    Take(base, SlugMaxLen(m) - Len(Suffix(n))) \o Suffix(n)]
    IN  IF base \notin others THEN base ELSE Cand[LeastFree(Cand, others)]

\* the slug the original C2 names: the normalized title, or it suffixed with -n
C2_ExpectedOriginal(rows, title) ==
    LET base == SlugifyOf[title]
        others == OtherSlugs(rows, NoPk)
        Cand == [n \in 2..(Cardinality(others) + 2) |-> base \o Suffix(n)]
    IN  IF base \notin others THEN base ELSE Cand[LeastFree(Cand, others)]

\* C2 (amended): a new row saved with no supplied slug gets the base if it is free,
\* otherwise the base cut to leave room for the suffix and suffixed with -n for the
\* least n >= 2 whose candidate is not used by another row of the type; the base is
\* the normalized title cut to the type's maximum length, or a random 8-character
\* token when the title normalizes to the empty string.
C2_NewRowSlug ==
    [][\A m \in SlugModels, t \in Titles : \A tok \in TokensFor(<<>>, t) :
          SlugSave(m, NoPk, t, <<>>, tok) =>
              \E r \in slugged'[m] :
                  r.pk = nextPk[m] /\ r.slug = C2_Expected(m, slugged[m], t, tok)]_vars

\* C2 as stated: a new row saved with no supplied slug gets the normalized title if
\* it is free, otherwise the normalized title suffixed with -n for the least n >= 2
\* whose candidate is not used by another row of the type.
C2_Original ==
    [][\A m \in SlugModels, t \in Titles : \A tok \in TokensFor(<<>>, t) :
          SlugSave(m, NoPk, t, <<>>, tok) =>
              \E r \in slugged'[m] :
                  r.pk = nextPk[m] /\ r.slug = C2_ExpectedOriginal(slugged[m], t)]_vars

\* two Event rows saved with the same over-long title: the base cut to 220 characters,
\* and the base cut to 218 characters suffixed with -2
C2_Witness ==
    \E r1, r2 \in slugged["Event"] :
        /\ r1.slug = Take(TitleLong, EventSlugMax)
        /\ r2.slug = Take(TitleLong, EventSlugMax - 2) \o Suffix(2)

\* C16: saving an Event, News or Album row that already has a non-empty slug leaves
\* the slug unchanged, whatever title is saved with it.
C16_SlugKept ==
    [][(last'.op = "slug_save" /\ last'.resaved) =>
          \A m \in SlugModels, t \in Titles : \A r \in slugged[m] :
              (r.slug # <<>> /\ SlugSave(m, r.pk, t, r.slug, NoToken)) =>
                  \E n \in slugged'[m] : n.pk = r.pk /\ n.slug = r.slug]_vars

\* a stored row was saved again with its slug, which is not the slug of the title saved
C16_Witness ==
    /\ last.op = "slug_save" /\ last.resaved
    /\ \E m \in SlugModels : \E r \in slugged[m] :
           r.slug = <<"a", "-", "2">> /\ \A x \in slugged[m] : x.slug # SlugA

\* C17: slug derivation happens only at the creation of a row: an update of a stored
\* Event, News or Album row, also one submitted with an empty slug, leaves the row
\* with the slug it had or with the slug submitted, never with a newly derived one.
C17_NoRederive ==
    [][\A m \in SlugModels, in \in SlugInputs : \A tok \in TokensFor(in[2], in[1]) :
          \A r \in slugged[m] :
              SlugSave(m, r.pk, in[1], in[2], tok) =>
                  \E n \in slugged'[m] : n.pk = r.pk /\ n.slug \in {r.slug, in[2]}]_vars

\* C21: every slug assigned by the slug hook (a row saved with a blank slug, at its
\* creation or later) is non-empty and no longer than the maximum of its type, also
\* when a collision suffix is appended; when the title normalizes to the empty string
\* the slug starts with the 8-character random token.
C21_SlugWithinLength ==
    [][(last'.op = "slug_save" /\ ~last'.resaved) =>
          \A m \in SlugModels, t \in Titles : \A tok \in TokensFor(<<>>, t) :
              \A pk \in {NoPk} \cup {r.pk : r \in slugged[m]} :
                  SlugSave(m, pk, t, <<>>, tok) =>
                      \E n \in slugged'[m] :
                          /\ n.pk = IF pk = NoPk THEN nextPk[m] ELSE pk
                          /\ n.slug # <<>>
                          /\ Len(n.slug) <= SlugMaxLen(m)
                          /\ SlugifyOf[t] = <<>> =>
                                 Len(tok) = TokenLen /\ Take(n.slug, TokenLen) = tok]_vars

\* a News table holding a slug of the maximum length, a suffixed slug of the maximum
\* length and a slug made of the random token
C21_Witness ==
    \E r1, r2, r3 \in slugged["News"] :
        /\ r1.slug = Take(TitleLong, NewsSlugMax)
        /\ r2.slug = Take(TitleLong, NewsSlugMax - 2) \o Suffix(2)
        /\ Len(r2.slug) = NewsSlugMax
        /\ r3.slug \in Tokens

----------------------------------------------------------------------------
(* File ownership claims *)

\* the files referenced by a file field of a stored row
ReferencedFiles ==
    ({r.image : r \in cards} \cup {r.logo : r \in settings} \cup {r.image : r \in about}
        \cup {r.image : r \in events} \cup {r.video : r \in events}
        \cup {r.video_captions : r \in events} \cup {r.cover_image : r \in albums}
        \cup {r.image : r \in media} \cup {r.video : r \in media}
        \cup {r.pdf_file : r \in exams}) \ {NoFile}

\* C11: after any sequence of creates, file-replacing updates and deletes of
\* file-owning records, every file in storage is referenced by a stored row.
C11_NoOrphans == storage \subseteq ReferencedFiles

\* C12: after Event.delete() the record is gone and so is every file that one of
\* its three file fields held; an empty field does not keep the others in storage.
C12_EventDeleteRemovesAll ==
    last.op = "event_delete" =>
        /\ \A e \in events : e.pk # last.row.pk
        /\ \A f \in {last.row.image, last.row.video, last.row.video_captions} \ {NoFile} :
               f \notin storage

\* an Event with all three files has been deleted, and so has one with no image
C12_Witness ==
    /\ last.op = "event_delete"
    /\ last.row.image # NoFile /\ last.row.video # NoFile /\ last.row.video_captions # NoFile

----------------------------------------------------------------------------
(* Gallery claims *)

\* C13: deleting an Album leaves every GalleryMedia row in the store; the rows that
\* referenced the album are unchanged except that their album reference is null, and
\* the rows of other albums or of no album are unchanged.
C13_AlbumDeleteKeepsMedia ==
    [][\A a \in albums : AlbumDeleteOf(a) =>
          /\ {r.pk : r \in media'} = {r.pk : r \in media}
          /\ \A r \in media : \E n \in media' :
                 /\ n.pk = r.pk /\ n.year = r.year /\ n.image = r.image /\ n.video = r.video
                 /\ n.album = IF r.album = a.pk THEN NoPk ELSE r.album]_vars

\* an album with media has been deleted while another album keeps its media
C13_Witness ==
    /\ last.op = "album_delete"
    /\ last.referenced # {}
    /\ \A r \in media : r.pk \in last.referenced => r.album = NoPk
    /\ \E r \in media : r.album # NoPk

----------------------------------------------------------------------------
(* List view claims *)

Range(seq) == {seq[i] : i \in DOMAIN seq}

\* C14: a filter parameter that fails to parse is dropped and raises no error: the
\* Exams, Timetables and Gallery lists with a non-integer semester or year and the
\* Events, News and Exams lists with an unparseable from or to date return what the
\* same request without that parameter returns.
C14_UnparsedDropped ==
    /\ response.view # "none" => response.result.status = 200
    /\ response.view = "exams" =>
          /\ ~ParseInt(response.semester).ok =>
                 response.result = ExamsList(exams, <<>>, response.from, response.to, Today)
          /\ ~ParseDate(response.from).ok =>
                 response.result = ExamsList(exams, response.semester, <<>>, response.to, Today)
          /\ ~ParseDate(response.to).ok =>
                 response.result = ExamsList(exams, response.semester, response.from, <<>>, Today)
    /\ response.view = "timetables" /\ ~ParseInt(response.semester).ok =>
          response.result = TimetablesList(timetables, <<>>)
    /\ response.view = "gallery" /\ ~ParseInt(response.year).ok =>
          response.result = GalleryList(media, <<>>)
    /\ response.view = "events" =>
          /\ ~ParseDate(response.from).ok =>
                 response.result = EventsList(events, response.type, <<>>, response.to, response.now)
          /\ ~ParseDate(response.to).ok =>
                 response.result = EventsList(events, response.type, response.from, <<>>, response.now)
    /\ response.view = "news" =>
          /\ ~ParseDate(response.from).ok =>
                 response.result = NewsList(newsItems, <<>>, response.to)
          /\ ~ParseDate(response.to).ok =>
                 response.result = NewsList(newsItems, response.from, <<>>)

\* the Exams list was asked for semester "abc" over exams of several semesters and
\* returned every exam
C14_Witness ==
    /\ response.view = "exams"
    /\ response.semester = <<"a", "b", "c">>
    /\ response.from = <<>>
    /\ Cardinality({r.semester : r \in exams}) > 1
    /\ Range(response.result.exams_upcoming) \cup Range(response.result.exams_past)
           = {r.pk : r \in exams}

\* the events of the requested category whose start date lies in [from, to]
C15_InRange ==
    {e \in events :
        /\ response.type # "" => e.category = response.type
        /\ DateLE(ParseDate(response.from).value, e.start_at.date)
        /\ DateLE(e.start_at.date, ParseDate(response.to).value)}

C15_Upcoming == {e \in C15_InRange : ~DateTimeLT(e.start_at, response.now)}

C15_Past == {e \in C15_InRange : DateTimeLT(e.start_at, response.now)}

C15_Returned ==
    Range(response.result.events_upcoming) \cup Range(response.result.events_past)

C15_Dated == response.view = "events" /\ ParseDate(response.from).ok /\ ParseDate(response.to).ok

\* C15 as stated: the Events list with from = F and to = T returns exactly the events
\* (of the requested category) whose start date d satisfies F <= d <= T.
C15_ExactlyInRange == C15_Dated => C15_Returned = {e.pk : e \in C15_InRange}

\* C15 amended: the Events list with from = F and to = T returns only events (of the
\* requested category) whose start date d satisfies F <= d <= T, bounds included; of
\* those starting at or after the current time it returns the ListLimit earliest, of
\* those starting before it the ListLimit latest, and all of them when there are no more.
C15_InRangeUpToLimit ==
    C15_Dated =>
        LET up == response.result.events_upcoming
            past == response.result.events_past
        IN  /\ Range(up) \subseteq {e.pk : e \in C15_Upcoming}
            /\ Range(past) \subseteq {e.pk : e \in C15_Past}
            /\ Cardinality(Range(up)) = Len(up) /\ Cardinality(Range(past)) = Len(past)
            /\ Len(up) = Min(ListLimit, Cardinality(C15_Upcoming))
            /\ Len(past) = Min(ListLimit, Cardinality(C15_Past))
            /\ \A e \in C15_Upcoming, x \in C15_Upcoming :
                   e.pk \in Range(up) /\ x.pk \notin Range(up)
                       => ~DateTimeLT(x.start_at, e.start_at)
            /\ \A e \in C15_Past, x \in C15_Past :
                   e.pk \in Range(past) /\ x.pk \notin Range(past)
                       => ~DateTimeLT(e.start_at, x.start_at)

\* a request for 2024-01-01 .. 2024-12-31 returned an event starting on the first day,
\* one starting in the afternoon of the last day, and left out events outside the range
C15_Witness ==
    /\ response.view = "events" /\ response.from = RawD1 /\ response.to = RawD2
    /\ \E e \in events : e.start_at.date = <<2024, 1, 1>> /\ e.pk \in C15_Returned
    /\ \E e \in events : e.start_at = At(<<2024, 12, 31>>, 15) /\ e.pk \in C15_Returned
    /\ \E e \in events : e.start_at.date = <<2023, 12, 31>> /\ e.pk \notin C15_Returned
    /\ \E e \in events : e.start_at.date = <<2025, 1, 1>> /\ e.pk \notin C15_Returned

----------------------------------------------------------------------------
(* Shared context claims *)

----------------------------------------------------------------------------
(* Validation claims *)

\* the rows of every table and the files in storage
store == <<slugged, staff, cards, settings, about, events, albums, media, exams,
           timetables, newsItems, storage>>

\* C20: a write rejected with a validation error (HighlightCard, Exam or Event form)
\* leaves the whole store unchanged: no row is created or modified, no file is stored.
C20_RejectedWriteChangesNothing ==
    [][(last'.op \in {"card_form", "exam_form", "event_form"} /\ ~last'.ok)
          => UNCHANGED store]_vars

\* the change form of a stored Exam was refused for its exam date
C20_Witness ==
    /\ last.op = "exam_form" /\ ~last.ok /\ last.pk # NoPk
    /\ \E e \in last.errors : e.field = "exam_date" /\ e.message # "required"
    /\ \E r \in exams : r.pk = last.pk /\ r.exam_date[1] >= 2000

====
